---- MODULE Spec2Model ----
(***************************************************************************)
(* State-machine model of the PEN web chat client (V1.1/web/script.js,    *)
(* with web/script.js as the variant without sleep cycle, model selector  *)
(* and markup renderer).  The page is single-threaded: one action is one  *)
(* run of an event handler or of an async continuation, from the event    *)
(* (or the settled promise) to the next await.                            *)
(***************************************************************************)
EXTENDS Integers, Sequences, FiniteSets, TLC

\* ------------------------------------------------------------------ bounds
\* user events (clicks, key presses, selections) in one behaviour
MaxOps == 2
\* longest tool batch a response or the history carries
MaxBatch == 2
\* longest messages array of a chat response, longest history list
MaxMsgs == 2

\* ------------------------------------------------------------ JSON values
\* an optional field of a JSON object: absent, or present with a value
None == <<>>
Some(x) == <<x>>
Has(o) == o # <<>>
Val(o) == o[1]
\* JavaScript truthiness of an optional string field
Truthy(o) == Has(o) /\ Val(o) # ""

SeqsUpTo(S, n) == UNION {[1..k -> S] : k \in 0..n}

\* ------------------------------------------------------------- user input
Texts == {"", " ", " hi "}
ChipTexts == {"", " hi "}
\* String.prototype.trim on the texts above
Trim(t) == CASE t = " " -> "" [] t = " hi " -> "hi" [] OTHER -> t

DefaultModel == "gemini-2.5-flash"
ModelIds == {"gemini-2.5-flash", "m2"}

\* --------------------------------------------------------------- DOM nodes
WelcomeNode == [kind |-> "welcome", role |-> "", content |-> ""]
TypingNode == [kind |-> "typing", role |-> "", content |-> ""]
MessageNode(role, content) == [kind |-> "message", role |-> role, content |-> content]

NoTool == [status |-> None, tool_status |-> None, error |-> None]
EmptyNode == [kind |-> "empty", tool |-> NoTool, cls |-> "", label |-> "", open |-> FALSE]

VARIABLES
  isSending,        \* let isSending
  showToolOutput,   \* let showToolOutput
  expandAllTools,   \* let expandAllTools
  selectedModel,    \* let selectedModel
  inputValue,       \* els.messageInput.value
  inputDisabled,    \* els.messageInput.disabled
  sendBtnDisabled,  \* els.sendBtn.disabled
  sleepBtnDisabled, \* els.sleepBtn.disabled
  dom,              \* messagesContent children, welcome display, toolsBody children, toolsEmpty display
  selector,         \* els.modelSelector: options, disabled, change listeners
  chat,             \* chat requests awaiting fetch() or res.json()
  hist,             \* history requests awaiting fetch() or res.json()
  sleep,            \* sleep requests awaiting fetch() or res.json()
  timers,           \* pending setTimeout(reset + reload, 1000) callbacks
  resets,           \* reset requests awaiting fetch()
  pc,               \* position of initializeApp
  ops               \* user events so far

vars == <<isSending, showToolOutput, expandAllTools, selectedModel, inputValue,
          inputDisabled, sendBtnDisabled, sleepBtnDisabled, dom, selector,
          chat, hist, sleep, timers, resets, pc, ops>>

\* ------------------------------------------------------ conversation view
Messages(d) == SelectSeq(d.messagesContent, LAMBDA n : n.kind = "message")
HasTyping(d) == \E i \in 1..Len(d.messagesContent) : d.messagesContent[i].kind = "typing"
TypingCount(d) == Len(SelectSeq(d.messagesContent, LAMBDA n : n.kind = "typing"))

\* an append that shows the welcome placeholder again for other roles
appendMessageShowWelcome(d, role, content) ==
  [d EXCEPT !.welcomeDisplay = IF role = "user" THEN "none" ELSE "",
            !.messagesContent = Append(@, MessageNode(role, content))]

\* an append that merges a bubble into an equal one already rendered
appendMessageMerge(d, role, content) ==
  [d EXCEPT !.welcomeDisplay = IF role = "user" THEN "none" ELSE @,
            !.messagesContent =
               IF \E i \in 1..Len(@) : @[i] = MessageNode(role, content)
               THEN @ ELSE Append(@, MessageNode(role, content))]

\* els.messagesContent.appendChild(msg), after the welcome test
appendMessage(d, role, content) ==
  [d EXCEPT !.welcomeDisplay = IF role = "user" THEN "none" ELSE @,
            !.messagesContent = Append(@, MessageNode(role, content))]

\* a show that does not look for an existing placeholder
showTypingAgain(d) == [d EXCEPT !.messagesContent = Append(@, TypingNode)]

\* if (document.getElementById("typingIndicator")) return; else append one
showTyping(d) ==
  IF HasTyping(d) THEN d
  ELSE [d EXCEPT !.messagesContent = Append(@, TypingNode)]

\* getElementById returns the first element carrying the id
RemoveFirstTyping(s) ==
  LET idx == {i \in 1..Len(s) : s[i].kind = "typing"}
  IN IF idx = {} THEN s
     ELSE LET k == CHOOSE i \in idx : \A j \in idx : i <= j
          IN SubSeq(s, 1, k - 1) \o SubSeq(s, k + 1, Len(s))

\* a hide that finds no placeholder to remove
hideTypingNone(d) == d

\* const el = document.getElementById("typingIndicator"); if (el) el.remove()
hideTyping(d) == [d EXCEPT !.messagesContent = RemoveFirstTyping(@)]

\* a reset that clears the conversation only
resetChatUIKeepTools(d) ==
  [d EXCEPT !.messagesContent = <<WelcomeNode>>, !.welcomeDisplay = ""]

\* both containers emptied, the welcome node and the empty-state node put back
resetChatUI(d) ==
  [messagesContent |-> <<WelcomeNode>>,
   welcomeDisplay |-> "",
   toolsBody |-> <<EmptyNode>>,
   toolsEmptyDisplay |-> "block"]

\* -------------------------------------------------------------- tool panel
\* String.prototype.toLowerCase on the status strings of the model
ToLower(s) == CASE s = "Failed" -> "failed" [] s = "COMPLETED" -> "completed" [] OTHER -> s

\* a derivation that never looks at the error field
toolStatusNoError(tool) ==
  LET raw == IF Truthy(tool.status) THEN Val(tool.status)
             ELSE IF Truthy(tool.tool_status) THEN Val(tool.tool_status)
             ELSE "completed"
  IN ToLower(raw)

\* const st = (tool.status || tool.tool_status || (tool.error ? "failed" : "completed") || "").toLowerCase()
toolStatus(tool) ==
  LET raw == IF Truthy(tool.status) THEN Val(tool.status)
             ELSE IF Truthy(tool.tool_status) THEN Val(tool.tool_status)
             ELSE IF Truthy(tool.error) THEN "failed" ELSE "completed"
  IN ToLower(raw)

\* status.classList.add(st || "running")
toolClass(st) == IF st = "" THEN "running" ELSE st

\* a label that knows no failed status
toolLabelNoFailed(st) == IF st = "completed" THEN "Completed" ELSE "Running"

\* status.textContent
toolLabel(st) == IF st = "completed" THEN "Completed" ELSE IF st = "failed" THEN "Failed" ELSE "Running"

\* a card whose details always start hidden
toolCardClosed(tool, expand) ==
  [kind |-> "card", tool |-> tool, cls |-> toolClass(toolStatus(tool)),
   label |-> toolLabel(toolStatus(tool)), open |-> FALSE]

\* one .tool-item; open is detailsContainer.style.display = "block"
toolCard(tool, expand) ==
  [kind |-> "card", tool |-> tool, cls |-> toolClass(toolStatus(tool)),
   label |-> toolLabel(toolStatus(tool)), open |-> expand]

\* a render that appends to what the panel already holds
updateToolsKeep(d, tools, expand) ==
  IF Len(tools) = 0
  THEN [d EXCEPT !.toolsEmptyDisplay = "block", !.toolsBody = Append(@, EmptyNode)]
  ELSE [d EXCEPT !.toolsEmptyDisplay = "none",
                 !.toolsBody = @ \o [i \in 1..Len(tools) |-> toolCard(tools[i], expand)]]

\* tools is an array here: the callers test Array.isArray / length
updateTools(d, tools, expand) ==
  LET cleared == [d EXCEPT !.toolsBody = <<>>]
  IN IF Len(tools) = 0
     THEN [cleared EXCEPT !.toolsEmptyDisplay = "block", !.toolsBody = Append(@, EmptyNode)]
     ELSE [cleared EXCEPT !.toolsEmptyDisplay = "none",
                          !.toolsBody = @ \o [i \in 1..Len(tools) |-> toolCard(tools[i], expand)]]

Cards(d) == SelectSeq(d.toolsBody, LAMBDA n : n.kind = "card")
Placeholders(d) == SelectSeq(d.toolsBody, LAMBDA n : n.kind = "empty")

\* ------------------------------------------------------- backend payloads
\* tool records as the backend may send them; None is an absent or null field.
\* tool_status is only read when status is falsy, an empty error only when both are.
ToolRecords ==
  {t \in [status : {None, Some("completed"), Some("failed"), Some("running"), Some("Failed")},
          tool_status : {None, Some("failed")},
          error : {None, Some(""), Some("boom")}] :
     /\ (Has(t.tool_status) => t.status \in {None, Some("completed")})
     /\ (t.error = Some("") => t.status = None /\ t.tool_status = None)}
FailedTool == [status |-> Some("failed"), tool_status |-> None, error |-> None]
ErrorTool == [status |-> None, tool_status |-> None, error |-> Some("boom")]

ChatRoles == {"assistant", "model", "tool"}
\* the entries of a messages array are told apart by their content
MsgLists(roles, n) ==
  UNION {{[i \in 1..k |-> [role |-> r[i], content |-> IF i = 1 THEN "m1" ELSE IF i = 2 THEN "m2" ELSE "m3"]] :
            r \in [1..k -> roles]} : k \in 0..n}

OptionOf(S) == {None} \cup {Some(x) : x \in S}

\* {reply?, messages?, tools?, error?}
ChatDataOf(lists, replies, batches) ==
  [error : {None, Some("e")}, messages : OptionOf(lists), reply : OptionOf(replies),
   tools : OptionOf(batches)]

\* the chat responses: every short messages list with one batch, and every
\* short batch of two kinds of tool record with one messages list
ChatData ==
  ChatDataOf(MsgLists(ChatRoles, MaxMsgs), {"r"}, {<<NoTool>>})
    \cup ChatDataOf({<<[role |-> "assistant", content |-> "m1"]>>}, {"r"},
                    SeqsUpTo({NoTool, FailedTool}, MaxBatch))
\* the responses that only carry tool records: one record of any kind, or a
\* batch of three plain kinds
ToolBatches == {<<t>> : t \in ToolRecords} \cup SeqsUpTo({NoTool, FailedTool, ErrorTool}, MaxBatch)
ChatToolData == {d \in ChatDataOf({}, {}, ToolBatches) : Has(d.tools) /\ ~Has(d.error)}
\* the responses of the whole-page specification
ChatDataSmall == ChatDataOf({<<[role |-> "assistant", content |-> "m1"]>>}, {}, {<<NoTool>>})

HistRoles == {None, Some("user"), Some("assistant"), Some("model")}
\* the entries a history list may hold at position i: told apart by their
\* content, or carrying neither role nor content
HistEntries(roles, i) ==
  {[role |-> r, content |-> Some(IF i = 1 THEN "h1" ELSE IF i = 2 THEN "h2" ELSE "h3")] :
     r \in roles} \cup {[role |-> None, content |-> None]}
HistLists(roles, n) ==
  UNION {{l \in [1..k -> UNION {HistEntries(roles, i) : i \in 1..k}] :
            \A i \in 1..k : l[i] \in HistEntries(roles, i)} : k \in 0..n}

\* {messages?, tool_interactions?}
HistDataOf(lists, batches) == [messages : OptionOf(lists), tool_interactions : OptionOf(batches)]
\* the history responses: every short list with one batch, and every short
\* batch of two kinds of tool record with one list
HistData ==
  HistDataOf(HistLists(HistRoles, MaxMsgs), {<<NoTool>>})
    \cup HistDataOf({<<[role |-> None, content |-> Some("h1")]>>},
                    SeqsUpTo({NoTool, FailedTool}, MaxBatch))
\* the responses of the whole-page specification
HistDataSmall == HistDataOf({<<>>, <<[role |-> None, content |-> Some("h1")]>>}, {<<NoTool>>})

RemoveAt(s, i) == SubSeq(s, 1, i - 1) \o SubSeq(s, i + 1, Len(s))

\* ------------------------------------------------------------ sendMessage
\* the text of the system bubble the catch block appends
ConnError(msg) == IF msg = "status" THEN "Connection error: Server error"
                  ELSE IF msg = "net" THEN "Connection error: Failed to fetch"
                  ELSE "Connection error: Unexpected token"

\* a guard that forgets the in-flight flag
sendGuardNoFlag(val) == Trim(val) # ""

\* a guard that tests the raw text, not the trimmed one
sendGuardNoTrim(val) == ~isSending /\ val # ""

\* if (isSending) return; if (!text) return;
sendGuard(val) == ~isSending /\ Trim(val) # ""

\* a lock that leaves the send button enabled
sendLockInputOnly ==
  /\ isSending' = TRUE
  /\ inputValue' = ""
  /\ inputDisabled' = TRUE
  /\ UNCHANGED sendBtnDisabled

\* isSending = true; the input is cleared and disabled, the button disabled
sendLock ==
  /\ isSending' = TRUE
  /\ inputValue' = ""
  /\ inputDisabled' = TRUE
  /\ sendBtnDisabled' = TRUE

\* the request goes out first, the bubble and the placeholder are left for later
sendOptimisticLate(d, text) == d

\* appendMessage("user", text); showTyping(); both before the request is built
sendOptimistic(d, text) == showTyping(appendMessage(d, "user", text))

\* a request that always names the model the page started with
chatRequestFirstModel(text) ==
  [phase |-> "fetch", text |-> text, sto |-> showToolOutput, model |-> DefaultModel]

\* the url and body of the fetch: show_tool_output, model, {message: text}
chatRequest(text) ==
  [phase |-> "fetch", text |-> text, sto |-> showToolOutput, model |-> selectedModel]

\* a handler whose early return gives the input back to the user
sendMessageUnlocking(val) ==
  IF sendGuard(val)
  THEN /\ sendLock
       /\ dom' = sendOptimistic(dom, Trim(val))
       /\ chat' = Append(chat, chatRequest(Trim(val)))
       /\ UNCHANGED <<showToolOutput, expandAllTools, selectedModel, sleepBtnDisabled,
                      selector, hist, sleep, timers, resets, pc>>
  ELSE /\ inputValue' = val
       /\ inputDisabled' = FALSE
       /\ UNCHANGED <<isSending, showToolOutput, expandAllTools, selectedModel,
                      sendBtnDisabled, sleepBtnDisabled, dom, selector,
                      chat, hist, sleep, timers, resets, pc>>

\* val is els.messageInput.value when the handler runs
sendMessage(val) ==
  IF sendGuard(val)
  THEN /\ sendLock
       /\ dom' = sendOptimistic(dom, Trim(val))
       /\ chat' = Append(chat, chatRequest(Trim(val)))
       /\ UNCHANGED <<showToolOutput, expandAllTools, selectedModel, sleepBtnDisabled,
                      selector, hist, sleep, timers, resets, pc>>
  ELSE /\ inputValue' = val
       /\ UNCHANGED <<isSending, showToolOutput, expandAllTools, selectedModel,
                      inputDisabled, sendBtnDisabled, sleepBtnDisabled, dom, selector,
                      chat, hist, sleep, timers, resets, pc>>

\* a cleanup that forgets the send button
sendFinallyInputOnly ==
  /\ isSending' = FALSE
  /\ inputDisabled' = FALSE
  /\ UNCHANGED sendBtnDisabled

\* finally { isSending = false; input and button enabled; focus }
sendFinally ==
  /\ isSending' = FALSE
  /\ inputDisabled' = FALSE
  /\ sendBtnDisabled' = FALSE

\* a catch block that leaves the placeholder
sendCatchKeepTyping(d, msg) == appendMessage(d, "system", ConnError(msg))

\* catch (err) { hideTyping(); appendMessage("system", ...) }
sendCatch(d, msg) == appendMessage(hideTyping(d), "system", ConnError(msg))

RECURSIVE appendAssistant(_, _)
\* data.messages.forEach: only assistant and model entries are rendered
appendAssistant(d, msgs) ==
  IF msgs = <<>> THEN d
  ELSE LET m == Head(msgs)
           d1 == IF m.role = "assistant" \/ m.role = "model"
                 THEN appendMessage(d, "assistant", m.content) ELSE d
       IN appendAssistant(d1, Tail(msgs))

\* a render that updates the tool panel outside the else branch
sendRenderToolsAlways(d, data, expand) ==
  LET d1 == hideTyping(d)
      d2 == IF Truthy(data.error) THEN appendMessage(d1, "system", Val(data.error))
            ELSE IF Has(data.messages) THEN appendAssistant(d1, Val(data.messages))
            ELSE IF Truthy(data.reply) THEN appendMessage(d1, "assistant", Val(data.reply))
            ELSE d1
  IN IF Has(data.tools) THEN updateTools(d2, Val(data.tools), expand) ELSE d2

\* a render that shows the reply next to the messages array
sendRenderReplyToo(d, data, expand) ==
  LET d1 == hideTyping(d)
  IN IF Truthy(data.error) THEN appendMessage(d1, "system", Val(data.error))
     ELSE LET d2 == IF Has(data.messages) THEN appendAssistant(d1, Val(data.messages)) ELSE d1
              d3 == IF Truthy(data.reply) THEN appendMessage(d2, "assistant", Val(data.reply)) ELSE d2
          IN IF Has(data.tools) THEN updateTools(d3, Val(data.tools), expand) ELSE d3

\* a render that updates the tool panel only in the reply branch
sendRenderToolsWithReply(d, data, expand) ==
  LET d1 == hideTyping(d)
  IN IF Truthy(data.error) THEN appendMessage(d1, "system", Val(data.error))
     ELSE IF Has(data.messages) THEN appendAssistant(d1, Val(data.messages))
     ELSE LET d2 == IF Truthy(data.reply) THEN appendMessage(d1, "assistant", Val(data.reply))
                    ELSE d1
          IN IF Has(data.tools) THEN updateTools(d2, Val(data.tools), expand) ELSE d2

\* the try block after `const data = await res.json()`
sendRender(d, data, expand) ==
  LET d1 == hideTyping(d)
  IN IF Truthy(data.error) THEN appendMessage(d1, "system", Val(data.error))
     ELSE LET d2 == IF Has(data.messages) THEN appendAssistant(d1, Val(data.messages))
                    ELSE IF Truthy(data.reply) THEN appendMessage(d1, "assistant", Val(data.reply))
                    ELSE d1
          IN IF Has(data.tools) THEN updateTools(d2, Val(data.tools), expand) ELSE d2

\* ------------------------------------------------- loadChatHistory (body)
RECURSIVE replayHistorySkipEmpty(_, _)
\* a replay that leaves out the entries without content
replayHistorySkipEmpty(d, msgs) ==
  IF msgs = <<>> THEN d
  ELSE LET m == Head(msgs)
           role == IF Truthy(m.role) THEN Val(m.role) ELSE "user"
       IN IF Truthy(m.content)
          THEN replayHistorySkipEmpty(appendMessage(d, role, Val(m.content)), Tail(msgs))
          ELSE replayHistorySkipEmpty(d, Tail(msgs))

RECURSIVE replayHistory(_, _)
\* messages.forEach: role = msg.role || "user", content = msg.content || ""
replayHistory(d, msgs) ==
  IF msgs = <<>> THEN d
  ELSE LET m == Head(msgs)
           role == IF Truthy(m.role) THEN Val(m.role) ELSE "user"
           content == IF Truthy(m.content) THEN Val(m.content) ELSE ""
       IN replayHistory(appendMessage(d, role, content), Tail(msgs))

\* a render that replays the tool records whatever the messages list holds
historyRenderToolsAlways(d, data, expand) ==
  LET messages == IF Has(data.messages) THEN Val(data.messages) ELSE <<>>
      tools == IF Has(data.tool_interactions) THEN Val(data.tool_interactions) ELSE <<>>
      d1 == IF Len(messages) > 0
            THEN replayHistory([d EXCEPT !.welcomeDisplay = "none"], messages) ELSE d
  IN IF Len(tools) > 0 THEN updateTools(d1, tools, expand) ELSE d1

\* the try block after `const data = await res.json()`
historyRender(d, data, expand) ==
  LET messages == IF Has(data.messages) THEN Val(data.messages) ELSE <<>>
      tools == IF Has(data.tool_interactions) THEN Val(data.tool_interactions) ELSE <<>>
  IN IF Len(messages) > 0
     THEN LET d1 == replayHistory([d EXCEPT !.welcomeDisplay = "none"], messages)
          IN IF Len(tools) > 0 THEN updateTools(d1, tools, expand) ELSE d1
     ELSE d

\* ------------------------------------------------------------------- Init
Init ==
  /\ isSending = FALSE
  /\ showToolOutput = TRUE
  /\ expandAllTools = FALSE
  /\ selectedModel = DefaultModel
  /\ inputValue = ""
  /\ inputDisabled = FALSE
  /\ sendBtnDisabled = FALSE
  /\ sleepBtnDisabled = FALSE
  /\ dom = [messagesContent |-> <<WelcomeNode>>, welcomeDisplay |-> "",
            toolsBody |-> <<EmptyNode>>, toolsEmptyDisplay |-> ""]
  /\ selector = [options |-> <<>>, value |-> "", disabled |-> FALSE, listeners |-> 0]
  /\ chat = <<>>
  /\ hist = <<>>
  /\ sleep = <<>>
  /\ timers = 0
  /\ resets = 0
  /\ pc = "wait"
  /\ ops = 0

\* one more event of the user
UserEvent == ops < MaxOps /\ ops' = ops + 1

\* ---------------------------------------------------- send: entry points
\* the user edits the input box
TypeInput ==
  /\ UserEvent
  /\ ~inputDisabled
  /\ \E t \in Texts : t # inputValue /\ inputValue' = t
  /\ UNCHANGED <<isSending, showToolOutput, expandAllTools, selectedModel, inputDisabled,
                 sendBtnDisabled, sleepBtnDisabled, dom, selector, chat, hist, sleep,
                 timers, resets, pc>>

\* els.sendBtn click (a disabled button dispatches no click)
SendClick == UserEvent /\ ~sendBtnDisabled /\ sendMessage(inputValue)

\* Enter without Shift in the input box (a disabled input has no focus)
EnterKey == UserEvent /\ ~inputDisabled /\ sendMessage(inputValue)

\* .suggestion-chip click: els.messageInput.value = text; sendMessage()
ChipClick == UserEvent /\ \E t \in ChipTexts : sendMessage(t)

\* ------------------------------------------------- send: continuations
ChatUnchanged == UNCHANGED <<showToolOutput, expandAllTools, selectedModel, inputValue,
                             sleepBtnDisabled, selector, hist, sleep, timers, resets, pc, ops>>

\* fetch() rejects: catch, finally
ChatFetchFail(i) ==
  /\ chat[i].phase = "fetch"
  /\ dom' = sendCatch(dom, "net")
  /\ sendFinally
  /\ chat' = RemoveAt(chat, i)
  /\ ChatUnchanged

\* fetch() resolves with !res.ok: throw, catch, finally
ChatFetchNotOk(i) ==
  /\ chat[i].phase = "fetch"
  /\ dom' = sendCatch(dom, "status")
  /\ sendFinally
  /\ chat' = RemoveAt(chat, i)
  /\ ChatUnchanged

\* fetch() resolves with res.ok: await res.json()
ChatFetchOk(i) ==
  /\ chat[i].phase = "fetch"
  /\ chat' = [chat EXCEPT ![i].phase = "body"]
  /\ UNCHANGED <<isSending, inputDisabled, sendBtnDisabled, dom>>
  /\ ChatUnchanged

\* res.json() rejects: catch, finally
ChatBodyFail(i) ==
  /\ chat[i].phase = "body"
  /\ dom' = sendCatch(dom, "parse")
  /\ sendFinally
  /\ chat' = RemoveAt(chat, i)
  /\ ChatUnchanged

\* the page after the try block has handled data
rendered(data) == sendRender(dom, data, expandAllTools)

\* res.json() resolves with data: render, finally
ChatBody(i, data) ==
  /\ chat[i].phase = "body"
  /\ dom' = rendered(data)
  /\ sendFinally
  /\ chat' = RemoveAt(chat, i)
  /\ ChatUnchanged

\* ------------------------------------------------------------------ reset
\* resetBtn click: confirm, resetChatUI, then the backend request
ResetClick ==
  /\ UserEvent
  /\ dom' = resetChatUI(dom)
  /\ resets' = resets + 1
  /\ UNCHANGED <<isSending, showToolOutput, expandAllTools, selectedModel, inputValue,
                 inputDisabled, sendBtnDisabled, sleepBtnDisabled, selector, chat, hist,
                 sleep, timers, pc>>

\* how the reset request may settle: success, non-success status, rejection
ResetOutcomes == {"ok", "status", "net"}

\* a catch block that reports the failure in the conversation
resetCatchNotice(d) == appendMessage(d, "system", "Reset failed")

\* catch { // silently ignore }
resetCatch(d) == d

\* the reset request settles: the response is not read, a rejection is caught
ResetSettle(outcome) ==
  /\ resets > 0
  /\ resets' = resets - 1
  /\ dom' = IF outcome = "net" THEN resetCatch(dom) ELSE dom
  /\ UNCHANGED <<isSending, showToolOutput, expandAllTools, selectedModel, inputValue,
                 inputDisabled, sendBtnDisabled, sleepBtnDisabled, selector, chat,
                 hist, sleep, timers, pc, ops>>

\* ------------------------------------------------------------ tool output
\* a switch that leaves the rendered cards as they are
toggleCardsLater(body, expand) == body

\* containers.forEach(el => el.style.display = expandAllTools ? 'block' : 'none')
toggleCards(body, expand) ==
  [i \in 1..Len(body) |-> IF body[i].kind = "card"
                            THEN [body[i] EXCEPT !.open = expand]
                            ELSE body[i]]

\* toolOutputToggle click
ToggleClick ==
  /\ UserEvent
  /\ showToolOutput' = ~showToolOutput
  /\ expandAllTools' = showToolOutput'
  /\ dom' = [dom EXCEPT !.toolsBody = toggleCards(@, expandAllTools')]
  /\ UNCHANGED <<isSending, selectedModel, inputValue, inputDisabled, sendBtnDisabled,
                 sleepBtnDisabled, selector, chat, hist, sleep, timers, resets, pc>>

\* click on one .tool-item
CardClick(i) ==
  /\ UserEvent
  /\ dom.toolsBody[i].kind = "card"
  /\ dom' = [dom EXCEPT !.toolsBody[i].open = ~@]
  /\ UNCHANGED <<isSending, showToolOutput, expandAllTools, selectedModel, inputValue,
                 inputDisabled, sendBtnDisabled, sleepBtnDisabled, selector, chat, hist,
                 sleep, timers, resets, pc>>

\* ------------------------------------------------------------ sleep cycle
SleepData == [status : {"success", "error"}, message : {None, Some("busy")}]
SleepDataSmall == {d \in SleepData : d.message = None}

SleepUnchanged == UNCHANGED <<isSending, showToolOutput, expandAllTools, selectedModel,
                              inputValue, inputDisabled, sendBtnDisabled, selector, chat,
                              hist, resets, pc>>

SleepEnv == UNCHANGED ops

\* a handler that re-enables the trigger at the end of its try block only
sleepFinallyInTry(thrown) == sleepBtnDisabled' = IF thrown THEN sleepBtnDisabled ELSE FALSE

\* finally { els.sleepBtn.disabled = false; ... }
sleepFinally(thrown) == sleepBtnDisabled' = FALSE

\* a handler that schedules the reload whatever the body declares
sleepReloadsAlways(data) == TRUE

\* if (data.status === "success")
sleepReloads(data) == data.status = "success"

\* `Sleep error: ${data.message || "Unknown error"}`
sleepError(data) ==
  IF Truthy(data.message) THEN "Sleep error: " \o Val(data.message) ELSE "Sleep error: Unknown error"

\* a trigger that takes clicks while it is disabled
sleepGuardOpen == TRUE

\* a disabled button dispatches no click
sleepGuard == ~sleepBtnDisabled

\* sleepBtn click, confirmed: disable, notice, request
SleepClick ==
  /\ UserEvent
  /\ sleepGuard
  /\ sleepBtnDisabled' = TRUE
  /\ dom' = appendMessage(dom, "system", "Starting sleep cycle...")
  /\ sleep' = Append(sleep, "fetch")
  /\ UNCHANGED timers
  /\ SleepUnchanged

\* fetch() rejects, or resolves with !res.ok: catch, finally
SleepFetchFail(i) ==
  /\ SleepEnv
  /\ sleep[i] = "fetch"
  /\ dom' = appendMessage(dom, "system", "Failed to start sleep")
  /\ sleepFinally(TRUE)
  /\ sleep' = RemoveAt(sleep, i)
  /\ UNCHANGED timers
  /\ SleepUnchanged

\* fetch() resolves with res.ok: await res.json()
SleepFetchOk(i) ==
  /\ SleepEnv
  /\ sleep[i] = "fetch"
  /\ sleep' = [sleep EXCEPT ![i] = "body"]
  /\ UNCHANGED <<dom, sleepBtnDisabled, timers>>
  /\ SleepUnchanged

\* res.json() rejects: catch, finally
SleepBodyFail(i) ==
  /\ SleepEnv
  /\ sleep[i] = "body"
  /\ dom' = appendMessage(dom, "system", "Failed to start sleep")
  /\ sleepFinally(TRUE)
  /\ sleep' = RemoveAt(sleep, i)
  /\ UNCHANGED timers
  /\ SleepUnchanged

\* res.json() resolves with data
SleepBody(i, data) ==
  /\ SleepEnv
  /\ sleep[i] = "body"
  /\ IF sleepReloads(data)
     THEN /\ dom' = appendMessage(dom, "system", "Sleep cycle completed successfully!")
          /\ timers' = timers + 1
     ELSE /\ dom' = appendMessage(dom, "system", sleepError(data))
          /\ UNCHANGED timers
  /\ sleepFinally(FALSE)
  /\ sleep' = RemoveAt(sleep, i)
  /\ SleepUnchanged

\* the 1000 ms timer fires: resetChatUI(); loadChatHistory()
SleepTimer ==
  /\ timers > 0
  /\ timers' = timers - 1
  /\ dom' = resetChatUI(dom)
  /\ hist' = Append(hist, [phase |-> "fetch", origin |-> "sleep"])
  /\ UNCHANGED <<isSending, showToolOutput, expandAllTools, selectedModel, inputValue,
                 inputDisabled, sendBtnDisabled, sleepBtnDisabled, selector, chat, sleep,
                 resets, pc, ops>>

\* -------------------------------------------------------- loadChatHistory
HistUnchanged == UNCHANGED <<isSending, showToolOutput, expandAllTools, selectedModel,
                             inputValue, inputDisabled, sendBtnDisabled, sleepBtnDisabled,
                             selector, chat, sleep, timers, resets, ops>>

\* initializeApp ends when its loadChatHistory() does
histDone(i) == pc' = IF hist[i].origin = "init" THEN "done" ELSE pc

\* a catch block that reports the failure in the conversation
historyCatchNotice(d) == appendMessage(d, "system", "Could not load chat history")

\* catch (err) { console.error(...) }
historyCatch(d) == d

\* fetch() rejects, or resolves with !res.ok: logged and swallowed
HistFetchFail(i) ==
  /\ hist[i].phase = "fetch"
  /\ hist' = RemoveAt(hist, i)
  /\ histDone(i)
  /\ dom' = historyCatch(dom)
  /\ HistUnchanged

\* fetch() resolves with res.ok: await res.json()
HistFetchOk(i) ==
  /\ hist[i].phase = "fetch"
  /\ hist' = [hist EXCEPT ![i].phase = "body"]
  /\ UNCHANGED <<dom, pc>>
  /\ HistUnchanged

\* res.json() rejects: logged and swallowed
HistBodyFail(i) ==
  /\ hist[i].phase = "body"
  /\ hist' = RemoveAt(hist, i)
  /\ histDone(i)
  /\ dom' = historyCatch(dom)
  /\ HistUnchanged

\* the page after the try block has handled data
replayed(data) == historyRender(dom, data, expandAllTools)

\* res.json() resolves with data
HistBody(i, data) ==
  /\ hist[i].phase = "body"
  /\ dom' = replayed(data)
  /\ hist' = RemoveAt(hist, i)
  /\ histDone(i)
  /\ HistUnchanged

\* ---------------------------------------------------- loadAvailableModels
ModelA == [id |-> "gemini-2.5-flash", provider |-> "google"]
ModelB == [id |-> "m2", provider |-> "other"]
Catalogs == {<<>>, <<ModelA>>, <<ModelB>>, <<ModelA, ModelB>>, <<ModelB, ModelA>>}
\* {models?, default?}
ModelsDataOf(catalogs, defaults) == [models : OptionOf(catalogs), default : defaults]
ModelsData == ModelsDataOf(Catalogs, {None, Some("gemini-2.5-flash"), Some("m2"), Some("m9")})
ModelsDataSmall == ModelsDataOf({<<>>, <<ModelB, ModelA>>}, {None, Some("m2")})

\* Object.keys(grouped).sort(), each group in catalog order
groupedIds(models) ==
  LET google == SelectSeq(models, LAMBDA m : m.provider = "google")
      other == SelectSeq(models, LAMBDA m : m.provider = "other")
      all == google \o other
  IN [i \in 1..Len(all) |-> all[i].id]

\* the option left selected: the declared default when listed, else the first
preselected(ids, default) ==
  IF \E i \in 1..Len(ids) : ids[i] = default THEN default ELSE ids[1]

\* the try block after `const data = await res.json()`
modelsRender(sel, data) ==
  LET models == IF Has(data.models) THEN Val(data.models) ELSE <<>>
      default == IF Truthy(data.default) THEN Val(data.default) ELSE "gemini-2.5-flash"
      ids == groupedIds(models)
  IN IF Len(models) = 0
     THEN [sel EXCEPT !.options = <<"">>, !.value = "", !.disabled = TRUE]
     ELSE [sel EXCEPT !.options = ids, !.value = preselected(ids, default),
                      !.listeners = @ + 1]

\* selectedModel = model.id for the entry equal to the declared default
modelsSelected(cur, data) ==
  LET models == IF Has(data.models) THEN Val(data.models) ELSE <<>>
      default == IF Truthy(data.default) THEN Val(data.default) ELSE "gemini-2.5-flash"
  IN IF \E i \in 1..Len(models) : models[i].id = default THEN default ELSE cur

\* catch: the single hardcoded option
modelsFallback(sel) == [sel EXCEPT !.options = <<"gemini-2.5-flash">>, !.value = "gemini-2.5-flash"]

InitUnchanged == UNCHANGED <<isSending, showToolOutput, expandAllTools, inputValue,
                             inputDisabled, sendBtnDisabled, sleepBtnDisabled, dom, chat,
                             sleep, timers, resets, ops>>

\* the 500 ms wait of initializeApp ends: loadAvailableModels() issues its request
InitModels ==
  /\ pc = "wait"
  /\ pc' = "modelsFetch"
  /\ UNCHANGED <<selectedModel, selector, hist>>
  /\ InitUnchanged

\* models fetch() rejects, or resolves with !res.ok: fallback, then loadChatHistory()
ModelsFetchFail ==
  /\ pc = "modelsFetch"
  /\ selector' = modelsFallback(selector)
  /\ hist' = Append(hist, [phase |-> "fetch", origin |-> "init"])
  /\ pc' = "history"
  /\ UNCHANGED selectedModel
  /\ InitUnchanged

ModelsFetchOk ==
  /\ pc = "modelsFetch"
  /\ pc' = "modelsBody"
  /\ UNCHANGED <<selectedModel, selector, hist>>
  /\ InitUnchanged

\* models res.json() rejects: fallback, then loadChatHistory()
ModelsBodyFail ==
  /\ pc = "modelsBody"
  /\ selector' = modelsFallback(selector)
  /\ hist' = Append(hist, [phase |-> "fetch", origin |-> "init"])
  /\ pc' = "history"
  /\ UNCHANGED selectedModel
  /\ InitUnchanged

\* models res.json() resolves: build the selector, then loadChatHistory()
ModelsBody(data) ==
  /\ pc = "modelsBody"
  /\ selector' = modelsRender(selector, data)
  /\ selectedModel' = modelsSelected(selectedModel, data)
  /\ hist' = Append(hist, [phase |-> "fetch", origin |-> "init"])
  /\ pc' = "history"
  /\ InitUnchanged

\* change event of the selector (the listener exists after a non-empty catalog)
ModelChange ==
  /\ UserEvent
  /\ ~selector.disabled
  /\ selector.listeners > 0
  /\ \E k \in 1..Len(selector.options) :
       /\ selector.options[k] # selector.value
       /\ selector' = [selector EXCEPT !.value = selector.options[k]]
       /\ selectedModel' = selector.options[k]
       /\ dom' = appendMessage(dom, "system", "Model changed")
  /\ UNCHANGED <<isSending, showToolOutput, expandAllTools, inputValue, inputDisabled,
                 sendBtnDisabled, sleepBtnDisabled, chat, hist, sleep, timers, resets, pc>>

\* ------------------------------------------------------- specifications
\* the send cycle
SendStep(data) ==
  \/ TypeInput
  \/ SendClick
  \/ EnterKey
  \/ ChipClick
  \/ \E i \in 1..Len(chat) : ChatFetchFail(i)
  \/ \E i \in 1..Len(chat) : ChatFetchNotOk(i)
  \/ \E i \in 1..Len(chat) : ChatFetchOk(i)
  \/ \E i \in 1..Len(chat) : ChatBodyFail(i)
  \/ \E i \in 1..Len(chat) : \E d \in data : ChatBody(i, d)

\* reset, tool-output switch, tool cards
PanelStep ==
  \/ ResetClick
  \/ \E o \in ResetOutcomes : ResetSettle(o)
  \/ ToggleClick
  \/ \E i \in 1..Len(dom.toolsBody) : CardClick(i)

SleepStep(data) ==
  \/ SleepClick
  \/ \E i \in 1..Len(sleep) : SleepFetchFail(i)
  \/ \E i \in 1..Len(sleep) : SleepFetchOk(i)
  \/ \E i \in 1..Len(sleep) : SleepBodyFail(i)
  \/ \E i \in 1..Len(sleep) : \E d \in data : SleepBody(i, d)
  \/ SleepTimer

HistoryStep(data) ==
  \/ \E i \in 1..Len(hist) : HistFetchFail(i)
  \/ \E i \in 1..Len(hist) : HistFetchOk(i)
  \/ \E i \in 1..Len(hist) : HistBodyFail(i)
  \/ \E i \in 1..Len(hist) : \E d \in data : HistBody(i, d)

\* initializeApp up to its call of loadChatHistory
InitStep(data) ==
  \/ InitModels
  \/ ModelsFetchFail
  \/ ModelsFetchOk
  \/ ModelsBodyFail
  \/ \E d \in data : ModelsBody(d)

ModelsStep(data) ==
  \/ InitStep(data)
  \/ ModelChange

\* the whole page: every handler and continuation, over small payloads
Next ==
  \/ SendStep(ChatDataSmall)
  \/ PanelStep
  \/ SleepStep(SleepDataSmall)
  \/ HistoryStep(HistDataSmall)
  \/ ModelsStep(ModelsDataSmall)

Spec == Init /\ [][Next]_vars

\* the send cycle with reset and the tool panel, over every shape of chat response
NextSend ==
  \/ SendStep(ChatData)
  \/ PanelStep

SpecSend == Init /\ [][NextSend]_vars

\* the tool panel fed by responses carrying every kind of tool record
NextPanel ==
  \/ SendStep(ChatToolData)
  \/ PanelStep

SpecPanel == Init /\ [][NextPanel]_vars

\* the one chat response of the history specification: a tool batch no
\* history carries
ChatDataPrior ==
  {[error |-> None, messages |-> None, reply |-> None, tools |-> Some(<<ErrorTool>>)]}

\* the page load over every shape of history response, with the reset, the
\* tool-output switch, the cards, and a send answered by one tool batch
NextHistory ==
  \/ InitStep({[models |-> None, default |-> None]})
  \/ HistoryStep(HistData)
  \/ PanelStep
  \/ ChipClick
  \/ \E i \in 1..Len(chat) : ChatFetchOk(i)
  \/ \E i \in 1..Len(chat) : \E d \in ChatDataPrior : ChatBody(i, d)

SpecHistory == Init /\ [][NextHistory]_vars

\* the page load and the sleep cycle over every shape of sleep response
NextSleep ==
  \/ InitStep({[models |-> None, default |-> None]})
  \/ HistoryStep(HistDataSmall)
  \/ SleepStep(SleepData)

SpecSleep == Init /\ [][NextSleep]_vars

\* the page load over every shape of model catalog, with the selector and a
\* send whose request fails
NextModels ==
  \/ ModelsStep(ModelsData)
  \/ HistoryStep(HistDataSmall)
  \/ ChipClick
  \/ \E i \in 1..Len(chat) : ChatFetchFail(i)

SpecModels == Init /\ [][NextModels]_vars

\* ----------------------------------------------------------- renderMarkup
\* message texts as sequences of characters
MaxText == 5
\* the character U+0060 (grave accent), written as a name
Backtick == "U+0060"
MarkupChars == {"<", ">", "&", Backtick, "*", "_", "\n", "a"}
MarkupTexts == UNION {[1..n -> MarkupChars] : n \in 0..MaxText}

\* String.prototype.replace(/c/g, by) for one character c
RECURSIVE replaceChar(_, _, _)
replaceChar(s, c, by) ==
  IF s = <<>> THEN <<>>
  ELSE (IF Head(s) = c THEN by ELSE <<Head(s)>>) \o replaceChar(Tail(s), c, by)

\* .replace(/&/g, '&amp;').replace(/</g, '&lt;').replace(/>/g, '&gt;')
escapeHtml(s) ==
  replaceChar(replaceChar(replaceChar(s, "&", <<"&", "a", "m", "p", ";">>),
                          "<", <<"&", "l", "t", ";">>),
              ">", <<"&", "g", "t", ";">>)

\* the delimiter d stands in s at position i
DelimAt(s, i, d) == i + Len(d) - 1 <= Len(s) /\ SubSeq(s, i, i + Len(d) - 1) = d

\* where a span opened by d at i may close: a non-empty group free of the
\* characters in bad, then d again
SpanEnds(s, i, d, bad) ==
  {k \in (i + Len(d) + 1)..(Len(s) - Len(d) + 1) :
     /\ DelimAt(s, k, d)
     /\ \A m \in (i + Len(d))..(k - 1) : s[m] \notin bad}

\* String.prototype.replace(/d(group)d/g, open $1 close): leftmost match,
\* shortest group, scanning on behind each match
RECURSIVE replaceSpans(_, _, _, _, _, _)
replaceSpans(s, i, d, bad, open, close) ==
  IF i > Len(s) THEN <<>>
  ELSE IF DelimAt(s, i, d) /\ SpanEnds(s, i, d, bad) # {}
       THEN LET ends == SpanEnds(s, i, d, bad)
                k == CHOOSE e \in ends : \A f \in ends : e <= f
            IN open \o SubSeq(s, i + Len(d), k - 1) \o close
                    \o replaceSpans(s, k + Len(d), d, bad, open, close)
       ELSE <<s[i]>> \o replaceSpans(s, i + 1, d, bad, open, close)

CodeOpen == <<"<", "c", "o", "d", "e", ">">>
CodeClose == <<"<", "/", "c", "o", "d", "e", ">">>
BoldOpen == <<"<", "b", ">">>
BoldClose == <<"<", "/", "b", ">">>
ItalicOpen == <<"<", "i", ">">>
ItalicClose == <<"<", "/", "i", ">">>
LineBreak == <<"<", "b", "r", ">">>

\* the four substitutions after the escape: `code`, **bold**, _italic_, newline
formatMarkup(safe) ==
  LET code == replaceSpans(safe, 1, <<Backtick>>, {Backtick}, CodeOpen, CodeClose)
      bold == replaceSpans(code, 1, <<"*", "*">>, {"\n"}, BoldOpen, BoldClose)
      italic == replaceSpans(bold, 1, <<"_">>, {"\n"}, ItalicOpen, ItalicClose)
  IN replaceChar(italic, "\n", LineBreak)

\* a renderer that formats the raw text and escapes afterwards
renderMarkupEscapeLast(text) == IF text = <<>> THEN <<>> ELSE escapeHtml(formatMarkup(text))

renderMarkup(text) == IF text = <<>> THEN <<>> ELSE formatMarkup(escapeHtml(text))

\* a bubble with the innerHTML of its body
BodyNode(role, content) ==
  [kind |-> "message", role |-> role, content |-> content, html |-> renderMarkup(content)]

\* a page about to render one message text
InitMarkup ==
  /\ isSending = FALSE
  /\ showToolOutput = TRUE
  /\ expandAllTools = FALSE
  /\ selectedModel = DefaultModel
  /\ inputValue \in MarkupTexts
  /\ inputDisabled = FALSE
  /\ sendBtnDisabled = FALSE
  /\ sleepBtnDisabled = FALSE
  /\ dom = [messagesContent |-> <<WelcomeNode>>, welcomeDisplay |-> "",
            toolsBody |-> <<EmptyNode>>, toolsEmptyDisplay |-> ""]
  /\ selector = [options |-> <<>>, value |-> "", disabled |-> FALSE, listeners |-> 0]
  /\ chat = <<>>
  /\ hist = <<>>
  /\ sleep = <<>>
  /\ timers = 0
  /\ resets = 0
  /\ pc = "wait"
  /\ ops = 0

\* appendMessage builds the bubble of the text: body.innerHTML = renderMarkup(content)
MarkupAppend ==
  /\ pc = "wait"
  /\ pc' = "markup"
  /\ dom' = [dom EXCEPT !.messagesContent = Append(@, BodyNode("system", inputValue))]
  /\ UNCHANGED <<isSending, showToolOutput, expandAllTools, selectedModel, inputValue,
                 inputDisabled, sendBtnDisabled, sleepBtnDisabled, selector, chat, hist,
                 sleep, timers, resets, ops>>

SpecMarkup == InitMarkup /\ [][MarkupAppend]_vars

\* ----------------------------------------------------------------- claims
InFlight == Len(chat)
Idle == ~isSending /\ ~inputDisabled /\ ~sendBtnDisabled
LastMessage(d) == Messages(d)[Len(Messages(d))]

\* C1: in every reachable state at most one chat request is in flight,
\* whatever the interleaving of send clicks, Enter, chips, reset, sleep,
\* toggle and response arrivals.
C1_SingleFlight == InFlight <= 1

\* a request is in flight, its body awaited, the history load pending, and a
\* second send was tried through a chip (its text sits in the cleared input)
C1_Witness ==
  /\ InFlight = 1 /\ chat[1].phase = "body" /\ hist # <<>>
  /\ inputValue = " hi " /\ ops = 2

\* C2: sendMessage called while isSending, or with an input whose trimmed
\* text is empty, issues no request, appends no bubble, shows no typing
\* placeholder and leaves isSending, the input value and the disabled flags
\* as they were.
C2_GuardedNoop ==
  [][\A val \in Texts :
       (sendMessage(val) /\ (isSending \/ Trim(val) = ""))
         => /\ chat' = chat
            /\ dom' = dom
            /\ isSending' = isSending
            /\ inputValue' = val
            /\ inputDisabled' = inputDisabled
            /\ sendBtnDisabled' = sendBtnDisabled]_vars

\* the second of two sends in immediate succession: one request, still at
\* fetch(), and the second call's text left in the disabled input
C2_Witness ==
  /\ isSending /\ inputDisabled /\ inputValue = " hi " /\ ops = 2
  /\ InFlight = 1 /\ chat[1].phase = "fetch"
  /\ Len(Messages(dom)) = 1

\* C3: a send cycle whose request completes, in any way, is back at Idle:
\* isSending false, input and button enabled, and a following sendMessage
\* passes the guard.
C3_CompletionIdle ==
  [][InFlight' < InFlight => Idle' /\ sendGuard(" hi ")']_vars

\* a cycle has completed with a connection-error bubble and a new one runs
C3_Witness ==
  /\ InFlight = 1 /\ Len(Messages(dom)) = 3
  /\ Messages(dom)[2] = MessageNode("system", ConnError("status"))
  /\ Messages(dom)[3].role = "user"

\* C4: while a chat request is in flight the input box and the send control
\* are both disabled.
C4_DisabledInFlight == InFlight > 0 => inputDisabled /\ sendBtnDisabled

\* in flight, after the user has reset the view under it
C4_Witness == InFlight = 1 /\ resets = 1 /\ ~HasTyping(dom) /\ inputDisabled /\ sendBtnDisabled

AssistantCount(d) == Len(SelectSeq(Messages(d), LAMBDA n : n.role = "assistant"))
AwaitingBody == \E i \in 1..Len(chat) : chat[i].phase = "body"

\* C5: within a send cycle the input is cleared and disabled, the user
\* bubble appended and the typing placeholder shown by the time the request
\* is issued, and a response is handled (assistant bubble appended) only in
\* a step that completes a request issued before.
C5_SendOrder ==
  [][/\ InFlight' > InFlight =>
          /\ inputValue' = "" /\ inputDisabled' /\ sendBtnDisabled'
          /\ chat'[Len(chat')].phase = "fetch"
          /\ Len(Messages(dom')) = Len(Messages(dom)) + 1
          /\ LastMessage(dom') = MessageNode("user", chat'[Len(chat')].text)
          /\ HasTyping(dom')
     /\ AssistantCount(dom') > AssistantCount(dom) =>
          \E i \in 1..Len(chat) : chat[i].phase = "body" /\ chat' = RemoveAt(chat, i)]_vars

\* the user bubble of a completed cycle, then the reply of its response
C5_Witness ==
  /\ Messages(dom) = <<MessageNode("user", "hi"), MessageNode("assistant", "r")>>
  /\ Idle /\ ~HasTyping(dom)

\* C6: a chat request that ends with a non-success status, a network failure
\* or an unparseable body removes the typing placeholder, appends exactly one
\* system bubble and no other, leaves the tool panel as it was and re-enables
\* the input.
C6_FailureHandling ==
  [][\A i \in 1..Len(chat) : \A msg \in {"net", "status", "parse"} :
       ((msg = "net" /\ ChatFetchFail(i)) \/ (msg = "status" /\ ChatFetchNotOk(i))
          \/ (msg = "parse" /\ ChatBodyFail(i)))
         => /\ ~HasTyping(dom')
            /\ Messages(dom') = Append(Messages(dom), MessageNode("system", ConnError(msg)))
            /\ dom'.toolsBody = dom.toolsBody
            /\ dom'.toolsEmptyDisplay = dom.toolsEmptyDisplay
            /\ ~inputDisabled' /\ ~sendBtnDisabled']_vars

\* a server error handled while the panel shows the cards of an earlier response
C6_Witness ==
  /\ Len(Cards(dom)) = 2 /\ Idle /\ ~HasTyping(dom)
  /\ Len(Messages(dom)) = 3
  /\ LastMessage(dom) = MessageNode("system", ConnError("status"))

\* C7: a successful response with an error field appends exactly one system
\* bubble with that error; its messages, reply and tools are not processed.
\* Stated of every response a request awaiting its body may get.
C7_ErrorField ==
  AwaitingBody =>
    \A d \in ChatData :
      Truthy(d.error)
        => /\ Messages(rendered(d)) = Append(Messages(dom), MessageNode("system", Val(d.error)))
           /\ rendered(d).toolsBody = dom.toolsBody
           /\ rendered(d).toolsEmptyDisplay = dom.toolsEmptyDisplay

\* the error of a response shown, the panel still holding its placeholder
C7_Witness ==
  /\ Messages(dom) = <<MessageNode("user", "hi"), MessageNode("system", "e")>>
  /\ dom.toolsBody = <<EmptyNode>> /\ Idle

\* the bubbles a response without error is to add
ExpectedBubbles(d) ==
  IF Has(d.messages)
  THEN LET shown == SelectSeq(Val(d.messages), LAMBDA m : m.role \in {"assistant", "model"})
       IN [k \in 1..Len(shown) |-> MessageNode("assistant", shown[k].content)]
  ELSE IF Has(d.reply) THEN <<MessageNode("assistant", Val(d.reply))>> ELSE <<>>

\* C8: for a successful response without error field, one assistant bubble
\* per messages entry of role assistant or model, in array order, none for
\* any other role; the reply is one assistant bubble only when there is no
\* messages array.  Stated of every response a request awaiting its body
\* may get.
C8_AssistantBubbles ==
  AwaitingBody =>
    \A d \in ChatData :
      ~Truthy(d.error) => Messages(rendered(d)) = Messages(dom) \o ExpectedBubbles(d)

\* two entries rendered in array order
C8_Witness ==
  Messages(dom) = <<MessageNode("user", "hi"), MessageNode("assistant", "m1"),
                    MessageNode("assistant", "m2")>>

\* C9: after a tool-panel render the panel holds exactly the cards of that
\* batch, one per record and in batch order, nothing of an earlier batch;
\* after an empty batch it holds exactly the empty-state placeholder.
\* Stated of every batch a request awaiting its body may get.
C9_PanelIsLastBatch ==
  AwaitingBody =>
    \A d \in ChatData :
      (~Truthy(d.error) /\ Has(d.tools))
        => LET batch == Val(d.tools)
               panel == rendered(d).toolsBody
           IN IF batch = <<>> THEN panel = <<EmptyNode>>
              ELSE /\ Len(panel) = Len(batch)
                   /\ \A k \in 1..Len(batch) :
                        panel[k].kind = "card" /\ panel[k].tool = batch[k]

\* the second render of a behaviour: two cards, in the order of that batch
C9_Witness ==
  /\ ops = 2 /\ InFlight = 0
  /\ Len(SelectSeq(Messages(dom), LAMBDA n : n.role = "user")) = 2
  /\ Len(dom.toolsBody) = 2
  /\ dom.toolsBody[1].tool = FailedTool /\ dom.toolsBody[2].tool = NoTool

\* the status the claim derives: explicit status, else failed on an error,
\* else running (an empty error string counted as no error)
ClaimedStatus(t) ==
  IF Has(t.status) THEN ToLower(Val(t.status))
  ELSE IF Has(t.tool_status) THEN ToLower(Val(t.tool_status))
  ELSE IF Truthy(t.error) THEN "failed" ELSE "running"

\* the status the code derives
DerivedStatus(t) ==
  IF Has(t.status) THEN ToLower(Val(t.status))
  ELSE IF Has(t.tool_status) THEN ToLower(Val(t.tool_status))
  ELSE IF Truthy(t.error) THEN "failed" ELSE "completed"

StatusLabel(st) == CASE st = "completed" -> "Completed" [] st = "failed" -> "Failed" [] OTHER -> "Running"

\* C10 as stated: the displayed status is the explicit status when present,
\* else failed when an error is present, else running.
C10_AsClaimed ==
  \A k \in 1..Len(Cards(dom)) :
    Cards(dom)[k].label = StatusLabel(ClaimedStatus(Cards(dom)[k].tool))

\* C10 amended: the displayed status is the explicit status when present,
\* else failed when a non-empty error is present, else completed; running is
\* shown only for an explicit status that is neither completed nor failed.
C10_StatusDerivation ==
  \A k \in 1..Len(Cards(dom)) :
    /\ Cards(dom)[k].label = StatusLabel(DerivedStatus(Cards(dom)[k].tool))
    /\ Cards(dom)[k].cls = DerivedStatus(Cards(dom)[k].tool)
    /\ (Cards(dom)[k].label = "Running" =>
          Has(Cards(dom)[k].tool.status) \/ Has(Cards(dom)[k].tool.tool_status))

\* a card of a record with neither status nor error, displayed as completed
C10_Witness ==
  \E k \in 1..Len(Cards(dom)) : Cards(dom)[k].tool = NoTool /\ Cards(dom)[k].label = "Completed"

\* a record the claim counts as failed: status failed, or no explicit status
\* and an error (a non-empty one, as for the derivation of C10)
FailedRecord(t) ==
  \/ Has(t.status) /\ ToLower(Val(t.status)) = "failed"
  \/ ~Has(t.status) /\ ~Has(t.tool_status) /\ Truthy(t.error)

\* C11: every card of a record whose status is failed, or that has no status
\* but an error, is displayed as failed and never as completed; a panel whose
\* cards all come from such records shows no completed card.
C11_FailedRendering ==
  /\ \A k \in 1..Len(Cards(dom)) :
       FailedRecord(Cards(dom)[k].tool)
         => Cards(dom)[k].label = "Failed" /\ Cards(dom)[k].cls = "failed"
  /\ (\A k \in 1..Len(Cards(dom)) : FailedRecord(Cards(dom)[k].tool))
       => \A k \in 1..Len(Cards(dom)) : Cards(dom)[k].label # "Completed"

\* the batch of the claim: one record with status failed, one with only an error
C11_Witness ==
  /\ Len(Cards(dom)) = 2
  /\ Cards(dom)[1].tool = FailedTool /\ Cards(dom)[2].tool = ErrorTool
  /\ Cards(dom)[1].label = "Failed" /\ Cards(dom)[2].label = "Failed"

IsPrefix(s, t) == Len(s) <= Len(t) /\ SubSeq(t, 1, Len(s)) = s

\* the step is a reset of the view: ResetClick issues the backend request,
\* SleepTimer consumes the reload timer, and no other action does either
Resetting == resets' > resets \/ timers' < timers

\* the bubbles a history response is to add, in the order of its list
HistoryBubbles(d) ==
  IF Has(d.messages)
  THEN [k \in 1..Len(Val(d.messages)) |->
          MessageNode(IF Truthy(Val(d.messages)[k].role) THEN Val(Val(d.messages)[k].role)
                      ELSE "user",
                      IF Has(Val(d.messages)[k].content)
                      THEN Val(Val(d.messages)[k].content) ELSE "")]
  ELSE <<>>

\* C12: in every step that is not a reset (the reset button, the reload after
\* a sleep cycle) the bubbles rendered before stay, in their order, and new
\* bubbles come after them; a history replay appends one bubble per message
\* even when equal bubbles are rendered already.
C12_AppendOrder ==
  [][/\ (dom'.messagesContent # dom.messagesContent /\ ~Resetting)
          => IsPrefix(Messages(dom), Messages(dom'))
     /\ Len(hist') < Len(hist)
          => \A i \in 1..Len(hist) : \A d \in HistDataSmall :
               HistBody(i, d) => Messages(dom') = Messages(dom) \o HistoryBubbles(d)]_vars

\* the same history replayed twice with no reset in between: two equal bubbles
C12_Witness ==
  /\ Messages(dom) = <<MessageNode("user", "h1"), MessageNode("user", "h1")>>
  /\ hist = <<>> /\ timers = 0

\* the bubbles of role user
UserCount(d) == Len(SelectSeq(Messages(d), LAMBDA n : n.role = "user"))

\* C13: a step that appends a user bubble leaves the welcome placeholder
\* hidden, and a hidden placeholder stays hidden in every step that is not a
\* reset (the reset button, the reload after a sleep cycle): a step that
\* leaves the placeholder visible has appended no user bubble and, when the
\* placeholder was hidden before, is a reset.
C13_WelcomeHidden ==
  [][dom'.welcomeDisplay # "none"
       => /\ UserCount(dom') <= UserCount(dom)
          /\ dom.welcomeDisplay = "none" => Resetting]_vars

\* hidden by a send, and still hidden after the response, its tool render
\* and a click on the tool-output switch
C13_Witness ==
  /\ dom.welcomeDisplay = "none" /\ Len(Cards(dom)) = 1 /\ ~showToolOutput
  /\ InFlight = 0 /\ Len(Messages(dom)) = 2 /\ ~HasTyping(dom)

\* C14: in every reachable state at most one typing placeholder exists;
\* showTyping while one exists changes nothing and hideTyping while none
\* exists changes nothing.
C14_TypingIdempotent ==
  /\ TypingCount(dom) <= 1
  /\ HasTyping(dom) => showTyping(dom) = dom
  /\ ~HasTyping(dom) => hideTyping(dom) = dom

\* a response handled after a reset had removed the placeholder under the
\* request: its hideTyping found none, its bubble is the only one
C14_Witness ==
  /\ Messages(dom) = <<MessageNode("assistant", "m1")>> /\ ~HasTyping(dom)
  /\ InFlight = 0 /\ ops = 2 /\ resets = 1

\* C15: after a reset (the reset button, the reload after a sleep cycle),
\* from any state, the view holds no bubble and no typing placeholder, the
\* welcome placeholder is visible, and the tool panel holds its empty-state
\* indicator and no card.
C15_ResetView ==
  [][Resetting
       => /\ dom'.messagesContent = <<WelcomeNode>>
          /\ dom'.welcomeDisplay = ""
          /\ Cards(dom') = <<>>
          /\ dom'.toolsBody = <<EmptyNode>>
          /\ dom'.toolsEmptyDisplay = "block"]_vars

\* the reset button used under a request whose body is awaited: the user
\* bubble and the typing placeholder are gone
C15_Witness ==
  /\ resets = 1 /\ InFlight = 1 /\ chat[1].phase = "body"
  /\ dom.messagesContent = <<WelcomeNode>> /\ dom.welcomeDisplay = ""
  /\ dom.toolsBody = <<EmptyNode>> /\ dom.toolsEmptyDisplay = "block"

\* C16: the step that issues the backend reset request has cleared the view,
\* and the step in which that request settles, with success, a non-success
\* status or a rejection, leaves the view as it is: no bubble, no undo.
C16_ResetAuthoritative ==
  [][/\ resets' > resets => dom' = resetChatUI(dom)
     /\ resets' < resets => \A o \in ResetOutcomes : ResetSettle(o) => dom' = dom]_vars

\* the backend request of a reset has settled and the view is still the cleared one
C16_Witness ==
  /\ resets = 0 /\ ops = 2 /\ InFlight = 0 /\ ~isSending
  /\ dom.messagesContent = <<WelcomeNode>> /\ dom.welcomeDisplay = ""
  /\ dom.toolsBody = <<EmptyNode>> /\ dom.toolsEmptyDisplay = "block"

\* the page as the document delivers it, before any handler has acted
Untouched ==
  /\ dom = [messagesContent |-> <<WelcomeNode>>, welcomeDisplay |-> "",
            toolsBody |-> <<EmptyNode>>, toolsEmptyDisplay |-> ""]
  /\ chat = <<>> /\ ~isSending /\ ~inputDisabled /\ ~sendBtnDisabled
  /\ resets = 0 /\ sleep = <<>> /\ ~sleepBtnDisabled /\ timers = 0
  /\ showToolOutput /\ ~expandAllTools

\* C17 as stated: until the initial loadChatHistory has ended, no send,
\* reset, sleep or toggle of the user has taken effect.
C17_AsClaimed == pc # "done" => Untouched

\* a send handled during the initial load: the history is replayed after
\* the bubble of the new message
C17_Witness ==
  /\ pc = "done" /\ hist = <<>> /\ InFlight = 1
  /\ Messages(dom) = <<MessageNode("user", "hi"), MessageNode("user", "h1")>>

HistAwaitingBody == \E i \in 1..Len(hist) : hist[i].phase = "body"

\* the messages list of a history response, empty when absent
HistoryMessages(d) == IF Has(d.messages) THEN Val(d.messages) ELSE <<>>

\* C18: a history response with an empty or absent messages list changes
\* nothing of the page: the welcome placeholder keeps its visibility, no
\* bubble is appended and the tool panel keeps what it shows, also when
\* tool_interactions is non-empty.  Stated of every response a history
\* request awaiting its body may get.
C18_EmptyHistory ==
  HistAwaitingBody =>
    \A d \in HistData : HistoryMessages(d) = <<>> => replayed(d) = dom

\* the page load has ended with no user event: the welcome placeholder is
\* visible and the panel shows its empty-state indicator
C18_Witness ==
  /\ pc = "done" /\ hist = <<>> /\ ops = 0
  /\ dom.messagesContent = <<WelcomeNode>> /\ dom.welcomeDisplay = ""
  /\ dom.toolsBody = <<EmptyNode>>

\* C19: a history request that fails (network failure or non-success status,
\* unparseable body) leaves the conversation view, the tool panel, isSending
\* and the disabled flags as they were, and a sendMessage that would issue a
\* request before would issue one after.
C19_HistoryFailure ==
  [][Len(hist') < Len(hist)
       => \A i \in 1..Len(hist) :
            (HistFetchFail(i) \/ HistBodyFail(i))
              => /\ dom' = dom
                 /\ UNCHANGED <<isSending, inputValue, inputDisabled, sendBtnDisabled>>
                 /\ (sendGuard(" hi ") => sendGuard(" hi ")')]_vars

\* the models and history loads are over, nothing was rendered, and a send
\* after them has issued its request
C19_Witness ==
  /\ pc = "done" /\ hist = <<>> /\ ops = 1
  /\ InFlight = 1 /\ chat[1].phase = "fetch"
  /\ Messages(dom) = <<MessageNode("user", "hi")>> /\ HasTyping(dom)
  /\ selector.options = <<"gemini-2.5-flash">>

\* C20: a history response with a non-empty messages list hides the welcome
\* placeholder, appends one bubble per message in the returned order, none
\* skipped, after the bubbles already rendered, and its tool records, if
\* any, replace the contents of the tool panel; without tool records the
\* panel is left as it is.  Stated of every response a history request
\* awaiting its body may get; the handler runs as one step, so the panel is
\* never seen replaced before the bubbles are appended.
C20_HistoryReplay ==
  HistAwaitingBody =>
    \A d \in HistData :
      HistoryMessages(d) # <<>>
        => /\ replayed(d).welcomeDisplay = "none"
           /\ Messages(replayed(d)) = Messages(dom) \o HistoryBubbles(d)
           /\ IF Has(d.tool_interactions) /\ Val(d.tool_interactions) # <<>>
              THEN LET batch == Val(d.tool_interactions)
                       panel == replayed(d).toolsBody
                   IN /\ Len(panel) = Len(batch)
                      /\ \A k \in 1..Len(batch) :
                           panel[k].kind = "card" /\ panel[k].tool = batch[k]
              ELSE replayed(d).toolsBody = dom.toolsBody

\* a history replayed after a send and its response: two bubbles in list
\* order after the user bubble, the second from an entry without role and
\* content, and the card of the response replaced by the one of the history
C20_Witness ==
  /\ pc = "done" /\ hist = <<>> /\ InFlight = 0
  /\ Messages(dom) = <<MessageNode("user", "hi"), MessageNode("assistant", "h1"),
                       MessageNode("user", "")>>
  /\ dom.welcomeDisplay = "none"
  /\ Len(dom.toolsBody) = 1 /\ dom.toolsBody[1].kind = "card"
  /\ dom.toolsBody[1].tool = NoTool

\* the cards of the tool panel are all collapsed / all expanded
AllCollapsed(d) == \A k \in 1..Len(d.toolsBody) : d.toolsBody[k].kind = "card" => ~d.toolsBody[k].open
AllExpanded(d) == \A k \in 1..Len(d.toolsBody) : d.toolsBody[k].kind = "card" => d.toolsBody[k].open
\* a step of the tool-output switch
Toggled == showToolOutput' # showToolOutput
\* a step that issues no chat, history, sleep or reset request and arms no timer
NoRequest ==
  /\ Len(chat') <= Len(chat) /\ Len(hist') <= Len(hist) /\ Len(sleep') <= Len(sleep)
  /\ resets' <= resets /\ timers' <= timers

\* C21: expandAllTools and showToolOutput are coupled 1:1: in every
\* reachable state, the initial state before any toggle included,
\* expandAllTools equals showToolOutput.
C21_AsClaimed == expandAllTools = showToolOutput

\* the page was loaded and never toggled: two tool cards of the history are
\* rendered collapsed while tool output is still requested from the backend
C21_Witness ==
  /\ ops = 0 /\ pc = "done"
  /\ showToolOutput /\ ~expandAllTools
  /\ Len(Cards(dom)) = 2 /\ AllCollapsed(dom)

\* C22: immediately after every toggle of the tool-output switch, every
\* rendered tool card has its details open exactly when expandAllTools is
\* true, whatever card clicks had set before, and the rendered cards are
\* the same cards in the same order.
C22_ToggleForcesCards ==
  [][Toggled
       => /\ Len(dom'.toolsBody) = Len(dom.toolsBody)
          /\ \A k \in 1..Len(dom.toolsBody) :
               /\ dom'.toolsBody[k].kind = dom.toolsBody[k].kind
               /\ dom.toolsBody[k].kind = "card"
                    => /\ dom'.toolsBody[k].open = expandAllTools'
                       /\ [dom'.toolsBody[k] EXCEPT !.open = dom.toolsBody[k].open]
                            = dom.toolsBody[k]
               /\ dom.toolsBody[k].kind # "card" => dom'.toolsBody[k] = dom.toolsBody[k]]_vars

\* two cards of the history, one opened by a click, then the switch: both
\* cards are collapsed again
C22_Witness ==
  /\ ops = 2 /\ ~showToolOutput /\ ~expandAllTools
  /\ Len(Cards(dom)) = 2 /\ AllCollapsed(dom)
  /\ Messages(dom) = <<MessageNode("user", "h1")>>

\* C23: in any reachable state where all rendered tool cards are collapsed
\* (two cards rendered right after page load, say), one toggle of the
\* tool-output switch expands all of them and issues no network request.
C23_AsClaimed ==
  [][(Toggled /\ Cards(dom) # <<>> /\ AllCollapsed(dom))
       => AllExpanded(dom') /\ NoRequest]_vars

\* the first toggle after a page load that rendered two cards: the cards are
\* still collapsed and no request was issued
C23_Witness ==
  /\ ops = 1 /\ pc = "done" /\ hist = <<>> /\ InFlight = 0 /\ resets = 0
  /\ ~showToolOutput /\ ~expandAllTools
  /\ Len(Cards(dom)) = 2 /\ AllCollapsed(dom)

\* C24: a newly rendered tool card starts with its details open exactly when
\* expandAllTools is true at render time, and a click on one card flips the
\* open state of that card only: every other card, expandAllTools and
\* showToolOutput are unchanged.  A render is a step of a response
\* (no user event) that changes the panel.
C24_CardOpenState ==
  [][/\ (ops' = ops /\ dom'.toolsBody # dom.toolsBody)
          => \A k \in 1..Len(dom'.toolsBody) :
               dom'.toolsBody[k].kind = "card" => dom'.toolsBody[k].open = expandAllTools
     /\ (ops' # ops /\ ~Toggled /\ ~Resetting /\ dom'.toolsBody # dom.toolsBody)
          => /\ \E i \in 1..Len(dom.toolsBody) :
                  /\ dom.toolsBody[i].kind = "card"
                  /\ dom'.toolsBody = [dom.toolsBody EXCEPT ![i].open = ~@]
             /\ UNCHANGED <<expandAllTools, showToolOutput>>
             /\ dom'.messagesContent = dom.messagesContent]_vars

\* two cards rendered open after the switch was toggled twice during the
\* page load
C24_Witness ==
  /\ ops = 2 /\ pc = "done" /\ expandAllTools /\ showToolOutput
  /\ Len(Cards(dom)) = 2 /\ AllExpanded(dom)

\* the system notices of the sleep handler
StartNotice == MessageNode("system", "Starting sleep cycle...")
SuccessNotice == MessageNode("system", "Sleep cycle completed successfully!")
ThrownNotice == MessageNode("system", "Failed to start sleep")
\* how often a node occurs among the bubbles
Count(d, node) == Len(SelectSeq(Messages(d), LAMBDA n : n = node))
FailureNotices(d) ==
  Len(SelectSeq(Messages(d), LAMBDA n : n.role = "system" /\ n # StartNotice /\ n # SuccessNotice))
\* no sleep request, reload timer or history request is pending
SleepQuiet == sleep = <<>> /\ timers = 0 /\ hist = <<>>

\* C25: every confirmed sleep cycle whose request completes (declared
\* success, declared failure, non-success status, network or parse failure)
\* ends with the sleep trigger enabled again, and the trigger is disabled
\* from the confirmation until that completion.
C25_SleepTrigger ==
  [][/\ sleep # <<>> => sleepBtnDisabled
     /\ Len(sleep') > Len(sleep) => sleepBtnDisabled'
     /\ Len(sleep') < Len(sleep) => ~sleepBtnDisabled']_vars

\* a cycle that ended in the catch block and one that is pending: the
\* trigger was enabled again for the second click
C25_Witness ==
  /\ ops = 2 /\ Len(sleep) = 1 /\ sleepBtnDisabled
  /\ Messages(dom) = <<StartNotice, ThrownNotice, StartNotice>>

\* C26: after a sleep response with status success a success notice is
\* appended and a timer armed, with no reset yet; when the timer fires the
\* view is reset in full and a history request issued, whose replay appends
\* the reloaded history, so that with nothing pending the view holds no
\* success notice and no starting notice of a cycle that succeeded.  On a
\* declared failure or a thrown error no timer is armed, no history request
\* issued, and exactly one system notice with the server-supplied or the
\* generic error is appended.
C26_SleepOutcome ==
  [][/\ \A i \in 1..Len(sleep) :
          /\ \A d \in SleepData :
               SleepBody(i, d)
                 => IF d.status = "success"
                    THEN /\ Messages(dom') = Append(Messages(dom), SuccessNotice)
                         /\ dom'.toolsBody = dom.toolsBody
                         /\ timers' = timers + 1 /\ hist' = hist
                    ELSE /\ Messages(dom') =
                              Append(Messages(dom),
                                     MessageNode("system",
                                                 IF d.message = Some("busy")
                                                   THEN "Sleep error: busy"
                                                   ELSE "Sleep error: Unknown error"))
                         /\ dom'.toolsBody = dom.toolsBody
                         /\ timers' = timers /\ hist' = hist
          /\ (SleepFetchFail(i) \/ SleepBodyFail(i))
               => /\ Messages(dom') = Append(Messages(dom), ThrownNotice)
                  /\ dom'.toolsBody = dom.toolsBody
                  /\ timers' = timers /\ hist' = hist
     /\ timers' < timers
          => /\ dom' = resetChatUI(dom)
             /\ Messages(dom') = <<>>
             /\ hist' = Append(hist, [phase |-> "fetch", origin |-> "sleep"])
     /\ \A i \in 1..Len(hist) : \A d \in HistDataSmall :
          (hist[i].origin = "sleep" /\ HistBody(i, d))
            => Messages(dom') = Messages(dom) \o HistoryBubbles(d)
     /\ SleepQuiet
          => /\ Count(dom, SuccessNotice) = 0
             /\ Count(dom, StartNotice) <= FailureNotices(dom)]_vars

\* a cycle that succeeded and whose reload has finished: the view was reset
\* and shows the reloaded history only
C26_Witness ==
  /\ ops = 1 /\ SleepQuiet /\ pc = "done" /\ ~sleepBtnDisabled
  /\ Messages(dom) = <<MessageNode("user", "h1")>>
  /\ dom.toolsEmptyDisplay = "block" /\ dom.welcomeDisplay = "none"

\* C27: after loadAvailableModels succeeds with a non-empty catalog, the
\* declared default is the pre-selected entry and selectedModel equals that
\* declared default; after loadAvailableModels fails, the selector holds the
\* single hardcoded default entry and selectedModel is that default.
C27_AsClaimed ==
  [][/\ \A d \in ModelsData :
          (ModelsBody(d) /\ Has(d.models) /\ Val(d.models) # <<>> /\ Has(d.default))
            => /\ selector'.value = Val(d.default)
               /\ selectedModel' = Val(d.default)
     /\ (ModelsFetchFail \/ ModelsBodyFail)
          => /\ selector'.options = <<"gemini-2.5-flash">>
             /\ selector'.value = "gemini-2.5-flash"
             /\ selectedModel' = "gemini-2.5-flash"]_vars

\* the catalog was loaded and nothing selected by the user: the selector
\* shows its only entry m2 while selectedModel is still gemini-2.5-flash,
\* and the request of a send names that model
C27_Witness ==
  /\ ops = 1 /\ selector.listeners = 1
  /\ selector.options = <<"m2">> /\ selector.value = "m2"
  /\ selectedModel = "gemini-2.5-flash"
  /\ InFlight = 1 /\ chat[1].model = "gemini-2.5-flash"

\* C28: selecting a different model entry sets selectedModel to that
\* entry's id at once and appends exactly one system notice; every chat
\* request issued afterwards carries the selected model as its model
\* parameter, and a chat request already in flight keeps the model it was
\* issued with.
C28_ModelChange ==
  [][/\ (selector'.value # selector.value /\ ops' # ops)
          => /\ selectedModel' = selector'.value
             /\ Messages(dom') = Append(Messages(dom), MessageNode("system", "Model changed"))
             /\ dom'.toolsBody = dom.toolsBody
             /\ chat' = chat
     /\ Len(chat') > Len(chat)
          => /\ chat'[Len(chat')].model = selectedModel
             /\ SubSeq(chat', 1, Len(chat)) = chat
     /\ Len(chat') = Len(chat)
          => \A i \in 1..Len(chat) : chat'[i].model = chat[i].model]_vars

\* the entry m2 was selected and a message sent after it: the request in
\* flight names m2
C28_Witness ==
  /\ ops = 2 /\ selectedModel = "m2" /\ selector.value = "m2"
  /\ Len(selector.options) = 2
  /\ InFlight = 1 /\ chat[1].model = "m2"
  /\ Messages(dom) = <<MessageNode("system", "Model changed"), MessageNode("user", "hi")>>

\* a request issued before the selection keeps its model while selectedModel
\* already names the new entry
C28_InFlightWitness ==
  /\ ops = 2 /\ selectedModel = "m2" /\ InFlight = 1 /\ chat[1].model = "gemini-2.5-flash"

\* the elements the formatter produces
FormatterTags == {CodeOpen, CodeClose, BoldOpen, BoldClose, ItalicOpen, ItalicClose, LineBreak}
\* every tag opened in h is one of the formatter's
OnlyFormatterTags(h) ==
  \A i \in 1..Len(h) : h[i] = "<" => \E t \in FormatterTags : DelimAt(h, i, t)
\* the character references of the three escaped characters
Entities == {<<"&", "a", "m", "p", ";">>, <<"&", "l", "t", ";">>, <<"&", "g", "t", ";">>}
Decoded(e) == IF e[2] = "a" THEN "&" ELSE IF e[2] = "l" THEN "<" ELSE ">"
\* the text a reader sees of h from position i on: tags dropped, character
\* references decoded
RECURSIVE visibleText(_, _)
visibleText(h, i) ==
  IF i > Len(h) THEN <<>>
  ELSE IF \E t \in FormatterTags : DelimAt(h, i, t)
       THEN LET t == CHOOSE u \in FormatterTags : DelimAt(h, i, u)
            IN visibleText(h, i + Len(t))
       ELSE IF \E e \in Entities : DelimAt(h, i, e)
            THEN LET e == CHOOSE u \in Entities : DelimAt(h, i, u)
                 IN <<Decoded(e)>> \o visibleText(h, i + Len(e))
            ELSE <<h[i]>> \o visibleText(h, i + 1)
\* the markup-significant characters of s, in order
Significant(s) == SelectSeq(s, LAMBDA c : c \in {"<", ">", "&"})
Stars(s) == {i \in 1..Len(s) : s[i] = "*"}
\* s is one **x** span inside text without further asterisks, x on one line
BoldSpan(s) ==
  \E i \in 1..Len(s) : \E k \in (i + 3)..Len(s) :
    /\ Stars(s) = {i, i + 1, k, k + 1}
    /\ \A m \in (i + 2)..(k - 1) : s[m] # "\n"
\* h holds a bold element, opened before it is closed
HasBold(h) ==
  \E p \in 1..Len(h) : \E q \in (p + 1)..Len(h) :
    DelimAt(h, p, BoldOpen) /\ DelimAt(h, q, BoldClose)
\* the bubble appended last
LastNode == dom.messagesContent[Len(dom.messagesContent)]

\* C29: for every message content the markup-significant characters are
\* escaped before any formatting substitution: the rendered body holds no
\* element other than the bold, italic, inline-code and line-break elements
\* of the formatter, every '<', '>' and '&' of the content shows as visible
\* text, and a **x** span is rendered as a bold element without its
\* asterisks.
C29_EscapeThenFormat ==
  pc = "markup"
    => /\ LastNode.content = inputValue
       /\ OnlyFormatterTags(LastNode.html)
       /\ Significant(visibleText(LastNode.html, 1)) = Significant(inputValue)
       /\ BoldSpan(inputValue) => HasBold(LastNode.html) /\ Stars(LastNode.html) = {}

\* the text **<** was rendered: a bold element around the escaped character
C29_Witness ==
  /\ pc = "markup"
  /\ inputValue = <<"*", "*", "<", "*", "*">>
  /\ LastNode.html = BoldOpen \o <<"&", "l", "t", ";">> \o BoldClose

\* C30: every bubble in the conversation view, whether created on send, on
\* receipt or on history replay, has a role that is one of user, assistant
\* or system.
C30_AsClaimed ==
  \A k \in 1..Len(Messages(dom)) : Messages(dom)[k].role \in {"user", "assistant", "system"}

\* a history entry of role model was replayed after a send: its bubble has
\* the role model, next to the user bubble of the send
C30_Witness ==
  /\ pc = "done" /\ hist = <<>>
  /\ Messages(dom) = <<MessageNode("user", "hi"), MessageNode("model", "h1")>>

\* the panel a batch of tool records is to give
PanelOf(batch, expand) ==
  IF batch = <<>> THEN <<EmptyNode>>
  ELSE [k \in 1..Len(batch) |-> toolCard(batch[k], expand)]

\* C31: for a successful chat response without an error field, a tools
\* array, when present, replaces the contents of the tool panel whether or
\* not the response has a messages array or a reply string and whatever they
\* hold; without a tools array the panel is left as it is.  Stated of every
\* response a request awaiting its body may get.
C31_ToolsIndependent ==
  AwaitingBody =>
    \A d \in ChatData :
      ~Truthy(d.error)
        => IF Has(d.tools)
           THEN /\ rendered(d).toolsBody = PanelOf(Val(d.tools), expandAllTools)
                /\ rendered(d).toolsEmptyDisplay =
                     IF Val(d.tools) = <<>> THEN "block" ELSE "none"
           ELSE /\ rendered(d).toolsBody = dom.toolsBody
                /\ rendered(d).toolsEmptyDisplay = dom.toolsEmptyDisplay

\* a response with a messages array and two tool records was handled: one
\* assistant bubble and the two cards of the batch
C31_Witness ==
  /\ InFlight = 0 /\ Idle /\ ops = 1
  /\ Messages(dom) = <<MessageNode("user", "hi"), MessageNode("assistant", "m1")>>
  /\ Len(dom.toolsBody) = 2 /\ Len(Cards(dom)) = 2
  /\ dom.toolsBody[1].tool = FailedTool /\ dom.toolsBody[2].tool = NoTool

\* C32: there is no timeout and no cancellation: while a chat request has
\* not completed, no step of the client (send, chip click, reset, sleep,
\* toggle, model change, history load, timer) sets isSending to false or
\* enables the input or the send button again; only the settling of the
\* request itself does, so the input stays disabled for as long as the
\* backend does not answer.
C32_NoCancellation ==
  [][(chat # <<>> /\ Len(chat') >= Len(chat))
       => /\ isSending /\ inputDisabled /\ sendBtnDisabled
          /\ isSending' /\ inputDisabled' /\ sendBtnDisabled'
          /\ Len(chat') = Len(chat)]_vars

\* a request still pending after a chip click and a reset: the input is
\* disabled and the view was emptied
C32_Witness ==
  /\ ops = 2 /\ InFlight = 1 /\ resets = 0
  /\ isSending /\ inputDisabled /\ sendBtnDisabled
  /\ Messages(dom) = <<>> /\ ~HasTyping(dom)

\* C33: a typing placeholder exists only while a send cycle is pending: in
\* every reachable state where isSending is false no typing placeholder is
\* present, whichever way the last sendMessage completed (response handled,
\* non-success status, network or parse failure).
C33_TypingOnlyWhileSending == ~isSending => ~HasTyping(dom)

\* a cycle that ended on a non-success status: the placeholder is gone, the
\* page idle, the error shown after the user bubble
C33_Witness ==
  /\ Idle /\ InFlight = 0 /\ ~HasTyping(dom)
  /\ Messages(dom) = <<MessageNode("user", "hi"), MessageNode("system", ConnError("status"))>>

\* the user bubble of the pending request i is in the view
OwnBubbleShown(i) ==
  \E k \in 1..Len(Messages(dom)) : Messages(dom)[k] = MessageNode("user", chat[i].text)

\* C34: from the optimistic append of a send cycle until its response is
\* handled, the typing placeholder is present and the user bubble of that
\* cycle is still in the view: no operation handled meanwhile (a reset by the
\* user, the deferred reset of a successful sleep cycle) removes them.
C34_AsClaimed ==
  \A i \in 1..Len(chat) : HasTyping(dom) /\ OwnBubbleShown(i)

\* a message sent while the reload timer of a sleep cycle was armed: the
\* timer has fired, the view is empty and the chat request still pending
C34_Witness ==
  /\ InFlight = 1 /\ isSending /\ ops = 2 /\ timers = 0 /\ resets = 0
  /\ \E i \in 1..Len(hist) : hist[i].origin = "sleep"
  /\ dom.messagesContent = <<WelcomeNode>> /\ dom.welcomeDisplay = ""

\* C35: in every reachable state, if the welcome placeholder is visible then
\* the conversation view holds no bubble; in particular a response arriving
\* after a reset, a sleep notice or a model-change notice never puts a
\* bubble next to a visible welcome placeholder.
C35_AsClaimed == dom.welcomeDisplay # "none" => Messages(dom) = <<>>

\* the response of a request that was pending during a reset: its assistant
\* bubble stands alone next to the visible welcome placeholder
C35_Witness ==
  /\ Idle /\ InFlight = 0 /\ resets = 0 /\ ops = 2
  /\ dom.welcomeDisplay = ""
  /\ dom.messagesContent = <<WelcomeNode, MessageNode("assistant", "m1")>>

\* a sleep cycle started on the fresh page: its notice next to the visible
\* welcome placeholder
C35_NoticeWitness ==
  /\ ops = 1 /\ Len(sleep) = 1 /\ dom.welcomeDisplay = ""
  /\ dom.messagesContent = <<WelcomeNode, MessageNode("system", "Starting sleep cycle...")>>

\* C36: at most one sleep request is in flight at any time; the sleep cycle
\* is not serialized against the send guard, so a sleep request and a chat
\* request may be in flight together, and starting a sleep cycle never
\* changes isSending, the input's or the send button's enabled state, or the
\* chat requests in flight.
C36_SleepSingleFlight ==
  [][/\ Len(sleep) <= 1 /\ Len(sleep') <= 1
     /\ Len(sleep') > Len(sleep)
          => /\ UNCHANGED <<isSending, inputDisabled, sendBtnDisabled, inputValue>>
             /\ chat' = chat]_vars

\* a sleep cycle started while a chat request was pending: its notice comes
\* after the typing placeholder of the send, and both requests are in flight
C36_Witness ==
  /\ InFlight = 1 /\ Len(sleep) = 1 /\ isSending /\ inputDisabled /\ sleepBtnDisabled
  /\ dom.messagesContent = <<WelcomeNode, MessageNode("user", "hi"), TypingNode, StartNotice>>
====
